---- MODULE Spec2Model ----
(***************************************************************************)
(* SummarizeIt: the Streamlit script of app.py and the pipeline stages of  *)
(* utils.py, as a state machine over the working directory, the           *)
(* per-session session_state and each session's position in the script.    *)
(*                                                                         *)
(* Strings are sequences of symbols.  A symbol is one character (" ",      *)
(* "a", ".", "/") or an indivisible chunk of characters that the code      *)
(* itself writes as a literal ("downloaded_", "transcript_", "mp3").       *)
(***************************************************************************)
EXTENDS Integers, Sequences, FiniteSets, TLC

VARIABLES
    users,      \* per browser session: what its user may do with the widgets
    fs,         \* working directory: file name -> content
    pc,         \* per session: position in the script run
    widgets,    \* per session: widget values the browser holds
    ss,         \* per session: st.session_state
    loc,        \* per session: locals of main / process_file
    calls,      \* per session: stage and service calls of the current script run
    out,        \* per session: what the current script run has rendered
    hist,       \* per session: history of the current script run (observation only)
    rn          \* rename_audio_file applied to one path (SpecRename)

vars == <<users, fs, pc, widgets, ss, loc, calls, out, hist, rn>>

----------------------------------------------------------------------------
(* Bounds *)

\* longest path handed to rename_audio_file in SpecRename
MaxPathLen == 4

\* the browser sessions the process serves
sessions == DOMAIN users

----------------------------------------------------------------------------
(* Strings *)

\* characters matched by \s / removed by str.strip()
Whitespace == {" ", "\t", "\n", "\r"}

EMPTY == <<>>

\* a value that is no string: Python's None
None == <<"<None>">>

RECURSIVE lstrip_ws(_)
\* the rest of s after its leading run of whitespace (what r'\s+' consumes)
lstrip_ws(s) ==
    IF s = <<>> THEN <<>>
    ELSE IF Head(s) \in Whitespace THEN lstrip_ws(Tail(s)) ELSE s

RECURSIVE re_sub_ws(_)
\* re.sub(r'\s+', '_', s): scan left to right, each leftmost-longest match of
\* \s+ is replaced by one "_"
re_sub_ws(s) ==
    IF s = <<>> THEN <<>>
    ELSE IF Head(s) \in Whitespace
         THEN <<"_">> \o re_sub_ws(lstrip_ws(Tail(s)))
         ELSE <<Head(s)>> \o re_sub_ws(Tail(s))

\* str.strip() is truthy: some character is not whitespace
strip_nonempty(s) == \E i \in 1..Len(s) : s[i] \notin Whitespace

\* index of the last occurrence of symbol c in s, 0 when there is none
rfind(s, c) ==
    LET I == {i \in 1..Len(s) : s[i] = c}
    IN  IF I = {} THEN 0 ELSE CHOOSE i \in I : \A j \in I : j <= i

\* os.path.basename: what follows the last "/"
basename(p) == SubSeq(p, rfind(p, "/") + 1, Len(p))

\* os.path.splitext: the extension starts at the last "." after the last "/",
\* unless only dots precede it in the file name
splitext(p) ==
    LET sep == rfind(p, "/")
        dot == rfind(p, ".")
    IN  IF dot > sep /\ \E j \in (sep + 1)..(dot - 1) : p[j] # "."
        THEN <<SubSeq(p, 1, dot - 1), SubSeq(p, dot, Len(p))>>
        ELSE <<p, <<>>>>

\* str.startswith(prefix) for a one-symbol prefix
startswith(name, prefix) == Len(name) >= 1 /\ name[1] = prefix

\* str.replace(old, "") for a one-symbol old
replace_empty(s, old) == SelectSeq(s, LAMBDA c : c # old)

\* 'needle' in s for a one-symbol needle
contains(s, needle) == \E i \in 1..Len(s) : s[i] = needle

\* the four prefixes cleanup_files scans for
CleanupPrefixes == {"downloaded_", "transcript_", "uploaded_", "temp_"}

has_cleanup_prefix(name) == \E p \in CleanupPrefixes : startswith(name, p)

----------------------------------------------------------------------------
(* The working directory *)

exists(d, name) == name \in DOMAIN d

\* open(name, 'w').write(content)
write_file(d, name, content) ==
    [n \in DOMAIN d \cup {name} |-> IF n = name THEN content ELSE d[n]]

remove_files(d, names) == [n \in DOMAIN d \ names |-> d[n]]

\* os.rename(src, dst)
rename_file(d, src, dst) ==
    [n \in (DOMAIN d \ {src}) \cup {dst} |-> IF n = dst THEN d[src] ELSE d[n]]

\* audio_file_name with r'\s' for r'\s+': every whitespace character becomes an
\* underscore of its own
audio_file_name_no_collapse(output_file) ==
    LET name == splitext(basename(output_file))[1]
        s == <<"downloaded_">> \o name \o <<".", "mp3">>
    IN  [i \in 1..Len(s) |-> IF s[i] \in Whitespace THEN "_" ELSE s[i]]

\* the new name rename_audio_file computes
audio_file_name(output_file) ==
    LET name == splitext(basename(output_file))[1]
    IN  re_sub_ws(<<"downloaded_">> \o name \o <<".", "mp3">>)

\* rename_audio_file: <<the directory afterwards, the returned name>>
rename_audio_file(d, output_file) ==
    LET audio_file == audio_file_name(output_file)
    IN  <<rename_file(d, output_file, audio_file), audio_file>>

\* save_transcript returning the name before the "downloaded_" prefix is
\* taken out of it, while writing to the name without it
save_transcript_other_name(d, audio_file, transcript_text) ==
    LET name == splitext(audio_file)[1]
        transcript_filename ==
            <<"transcript_">> \o replace_empty(name, "downloaded_") \o <<".", "txt">>
    IN  <<write_file(d, transcript_filename, transcript_text),
          <<"transcript_">> \o name \o <<".", "txt">>>>

\* save_transcript: <<the directory afterwards, the returned name>>
save_transcript(d, audio_file, transcript_text) ==
    LET name == splitext(audio_file)[1]
        transcript_filename ==
            <<"transcript_">> \o replace_empty(name, "downloaded_") \o <<".", "txt">>
    IN  <<write_file(d, transcript_filename, transcript_text), transcript_filename>>

\* cleanup_files: every entry with one of the four prefixes is removed (the
\* entries are files the process has written itself, os.remove succeeds on them)
cleanup_files(d) ==
    remove_files(d, {n \in DOMAIN d : has_cleanup_prefix(n)})

----------------------------------------------------------------------------
(* Text files *)

\* os.linesep of the host
linesep == <<"\n">>

RECURSIVE write_text(_)
\* what f.write(text) stores in text mode: "\n" becomes os.linesep
write_text(t) ==
    IF t = <<>> THEN <<>>
    ELSE (IF Head(t) = "\n" THEN linesep ELSE <<Head(t)>>) \o write_text(Tail(t))

\* "xFF" stands for a byte sequence that is not UTF-8
decodable(c) == ~contains(c, "xFF")

RECURSIVE read_text(_)
\* what f.read() returns in text mode: "\r\n" and "\r" both become "\n"
read_text(c) ==
    IF c = <<>> THEN <<>>
    ELSE IF Head(c) = "\r"
         THEN <<"\n">> \o read_text(IF Len(c) >= 2 /\ c[2] = "\n"
                                    THEN Tail(Tail(c)) ELSE Tail(c))
         ELSE <<Head(c)>> \o read_text(Tail(c))

----------------------------------------------------------------------------
(* Inputs of the user and answers of the external services *)

DIRECT == "Direct text input"
TEXTFILE == "Text file"
YOUTUBE == "YouTube link"
VIDEO == "Video file"
AUDIO == "Audio file"

\* the options of the radio button, the first is its default
InputTypes == {DIRECT, TEXTFILE, YOUTUBE, VIDEO, AUDIO}

\* what the user may type into the text area ("" is its default).  A browser
\* hands over the value of a text area with its line breaks as "\n", so no
\* text holds a "\r"
UserTexts == {EMPTY, <<" ">>, <<"H", "i">>, <<" ", "H", "\n">>}

\* what the user may type into the link field ("" is its default)
Links == {EMPTY, <<"youtube.com", "/", "id">>, <<"youtu.be", "/", "id">>}

\* files the user may upload (None: nothing uploaded)
TextUploads == {None, <<"t", "\r", "\n">>, <<"xFF">>}
VideoUploads == {None, <<"video">>}
AudioUploads == {None, <<"audio">>}

\* positions of the slider that the model tries (its default is 150)
SummaryLengths == {50, 150}
DefaultLength == 150

\* paths audio.download() may return
OutputFiles == {<<"/", "My", " ", "Video", ".", "mp4">>,
                <<"/", "a", "\t", " ", "b", ".", "webm">>}

\* answers of the speech-to-text and chat-completion services
Transcriptions == {<<"T">>}
Translations == {<<"E">>}
Completions == {<<"S">>}

TEMP_USER_INPUT == <<"temp_", "user_input", ".", "txt">>
UPLOADED_TEXT == <<"uploaded_", "text", ".", "txt">>
UPLOADED_VIDEO == <<"uploaded_", "video", ".", "mp4">>
UPLOADED_AUDIO == <<"uploaded_", "audio", ".", "mp3">>

MSG_INVALID_URL == "Please provide a valid YouTube URL"
MSG_DETAILS == "An error occurred while fetching video details"
MSG_DOWNLOAD_FAILED == "Download failed!"
MSG_DOWNLOAD == "An error occurred while downloading the audio"
MSG_NO_FILE == "File does not exist!"
MSG_TRANSCRIBE == "An error occurred while transcribing the audio"
MSG_TRANSLATE == "An error occurred while translating the transcript"
MSG_SUMMARIZE == "An error occurred while summarizing the transcript"

\* the values the input widget of a mode can hold
InputValues(mode) ==
    CASE mode = DIRECT -> UserTexts
      [] mode = TEXTFILE -> TextUploads
      [] mode = YOUTUBE -> Links
      [] mode = VIDEO -> VideoUploads
      [] mode = AUDIO -> AudioUploads

\* the value of a mode's input widget before the user touches it
DefaultValue(mode) == IF mode \in {DIRECT, YOUTUBE} THEN EMPTY ELSE None

\* whether the handler of the mode returns a file_info for this value
has_input(mode, value) ==
    IF mode \in {DIRECT, YOUTUBE} THEN strip_nonempty(value) ELSE value # None

DefaultWidgets(mode) ==
    [input_type |-> mode, value |-> DefaultValue(mode),
     summary_length |-> DefaultLength, translate_text |-> FALSE, button |-> FALSE]

NoLocals ==
    [file |-> None, is_text |-> FALSE, is_youtube |-> FALSE,
     transcript_file |-> None, result |-> None]

NoOutput ==
    [errors |-> <<>>, summary |-> None, transcript |-> None, exception |-> FALSE]

\* the observations of one script run, all cleared when the next one starts;
\* made_in, the input type under which the stored results were made, lives as
\* long as the session
NoHistory(made_in) ==
    [changed |-> FALSE, had |-> None, ran |-> FALSE, before |-> <<None, None>>,
     created |-> {}, victim |-> FALSE, no_input |-> {}, failed |-> None,
     tr_in |-> None, tr_new |-> {}, tr_text |-> None,
     sum_args |-> <<>>, completion |-> None, made_in |-> made_in]

----------------------------------------------------------------------------
(* A script run: main, lines 17-27, after the user event that starts it *)

\* main_top with line 26 missing: the transcript survives a change of the
\* input type
main_top_keeps_transcript(s, w) ==
    LET cur == ss[s]
        s1 == [cur EXCEPT !.summary = IF @ = None THEN EMPTY ELSE @,
                          !.transcript = IF @ = None THEN EMPTY ELSE @]
        differs == s1.last_input_type # w.input_type
        s2 == IF differs
              THEN [s1 EXCEPT !.summary = EMPTY, !.last_input_type = w.input_type]
              ELSE s1
    IN  /\ pc[s] = "idle"
        /\ widgets' = [widgets EXCEPT ![s] = w]
        /\ ss' = [ss EXCEPT ![s] = s2]
        /\ loc' = [loc EXCEPT ![s] = NoLocals]
        /\ calls' = [calls EXCEPT ![s] = <<>>]
        /\ out' = [out EXCEPT ![s] = NoOutput]
        /\ hist' = [hist EXCEPT ![s] =
                       [NoHistory(hist[s].made_in)
                           EXCEPT !.changed = differs, !.had = cur.summary]]
        /\ pc' = [pc EXCEPT ![s] = "handler"]
        /\ UNCHANGED <<users, fs, rn>>

\* main up to the input handler, run with the widget values w: the
\* session_state defaults are set, and summary and transcript are cleared when
\* the input type is not the recorded one
main_top(s, w) ==
    LET cur == ss[s]
        s1 == [cur EXCEPT !.summary = IF @ = None THEN EMPTY ELSE @,
                          !.transcript = IF @ = None THEN EMPTY ELSE @]
        differs == s1.last_input_type # w.input_type
        s2 == IF differs
              THEN [summary |-> EMPTY, transcript |-> EMPTY,
                    last_input_type |-> w.input_type]
              ELSE s1
    IN  /\ pc[s] = "idle"
        /\ widgets' = [widgets EXCEPT ![s] = w]
        /\ ss' = [ss EXCEPT ![s] = s2]
        /\ loc' = [loc EXCEPT ![s] = NoLocals]
        /\ calls' = [calls EXCEPT ![s] = <<>>]
        /\ out' = [out EXCEPT ![s] = NoOutput]
        /\ hist' = [hist EXCEPT ![s] =
                       [NoHistory(hist[s].made_in)
                           EXCEPT !.changed = differs, !.had = cur.summary]]
        /\ pc' = [pc EXCEPT ![s] = "handler"]
        /\ UNCHANGED <<users, fs, rn>>

\* the page is loaded or refreshed: the script runs with the widgets as they are
load_page(s) == main_top(s, widgets[s])

\* the user picks another input type: the widgets of the page that is left
\* lose their values
choose_input_type(s) ==
    \E m \in users[s].input_types \ {widgets[s].input_type} :
        main_top(s, DefaultWidgets(m))

\* the user types a text or a link, or uploads or removes a file; the slider and
\* the checkbox exist only while the handler returns a file_info
enter_input(s) ==
    \E v \in (InputValues(widgets[s].input_type) \cap users[s].values)
                \ {widgets[s].value} :
        main_top(s, IF has_input(widgets[s].input_type, v)
                    THEN [widgets[s] EXCEPT !.value = v]
                    ELSE DefaultWidgets(widgets[s].input_type))

\* the user moves the slider or ticks the checkbox
set_options(s) ==
    /\ has_input(widgets[s].input_type, widgets[s].value)
    /\ \E l \in users[s].lengths, t \in users[s].translate :
        /\ <<l, t>> # <<widgets[s].summary_length, widgets[s].translate_text>>
        /\ main_top(s, [widgets[s] EXCEPT !.summary_length = l,
                                          !.translate_text = t])

\* the user clicks 'Generate Summary'
click_generate(s) ==
    /\ has_input(widgets[s].input_type, widgets[s].value)
    /\ main_top(s, [widgets[s] EXCEPT !.button = TRUE])

----------------------------------------------------------------------------
(* The input handlers, main lines 29-52 *)

\* get_youtube_video_details: <<success, service calls made>>, for each
\* answer the video service may give
get_youtube_video_details(link) ==
    IF ~contains(link, "youtube.com")
    THEN {<<FALSE, MSG_INVALID_URL, <<>>>>}
    ELSE {<<TRUE, "", <<"video_service">>>>,
          <<FALSE, MSG_DETAILS, <<"video_service">>>>}

\* the handler of the input type: <<file, is_text, is_youtube>> or None, the
\* directory afterwards, the errors shown and the service calls made
handle_input(mode, value, d) ==
    CASE mode = DIRECT ->
            IF strip_nonempty(value)
            THEN {[info |-> <<TEMP_USER_INPUT, TRUE, FALSE>>,
                   fs |-> write_file(d, TEMP_USER_INPUT, write_text(value)),
                   errors |-> <<>>, calls |-> <<>>]}
            ELSE {[info |-> None, fs |-> d, errors |-> <<>>, calls |-> <<>>]}
      [] mode = YOUTUBE ->
            IF strip_nonempty(value)
            THEN {[info |-> <<value, FALSE, TRUE>>, fs |-> d,
                   errors |-> IF r[1] THEN <<>> ELSE <<r[2]>>, calls |-> r[3]] :
                     r \in get_youtube_video_details(value)}
            ELSE {[info |-> None, fs |-> d, errors |-> <<>>, calls |-> <<>>]}
      [] mode \in {TEXTFILE, VIDEO, AUDIO} ->
            LET filename == CASE mode = TEXTFILE -> UPLOADED_TEXT
                              [] mode = VIDEO -> UPLOADED_VIDEO
                              [] mode = AUDIO -> UPLOADED_AUDIO
            IN  IF value # None
                THEN {[info |-> <<filename, mode = TEXTFILE, FALSE>>,
                       fs |-> write_file(d, filename, value),
                       errors |-> <<>>, calls |-> <<>>]}
                ELSE {[info |-> None, fs |-> d, errors |-> <<>>, calls |-> <<>>]}

\* first_stage without the is_text test of line 135: text is transcribed too
first_stage_always_transcribes(is_text, is_youtube) ==
    IF is_youtube THEN "download" ELSE "transcribe"

\* the first stage process_file runs (lines 127, 135, 150-153)
first_stage(is_text, is_youtube) ==
    IF is_youtube THEN "download"
    ELSE IF ~is_text THEN "transcribe" ELSE "summarize"

\* main, lines 29-52: the handler runs; with a file_info and the button
\* pressed, process_file is entered
run_handler(s) ==
    /\ pc[s] = "handler"
    /\ \E h \in handle_input(widgets[s].input_type, widgets[s].value, fs) :
        LET go == h.info # None /\ widgets[s].button
        IN  /\ fs' = h.fs
            /\ out' = [out EXCEPT ![s].errors = @ \o h.errors]
            /\ calls' = [calls EXCEPT ![s] = @ \o h.calls]
            /\ loc' = [loc EXCEPT ![s] =
                          IF h.info = None THEN NoLocals
                          ELSE [NoLocals EXCEPT
                                   !.file = h.info[1],
                                   !.is_text = h.info[2],
                                   !.is_youtube = h.info[3],
                                   !.transcript_file =
                                       IF go /\ h.info[2]
                                       THEN h.info[1] ELSE None]]
            /\ hist' = [hist EXCEPT ![s].ran = go,
                                    ![s].before =
                                        IF go THEN <<ss[s].summary, ss[s].transcript>>
                                        ELSE @]
            /\ pc' = [pc EXCEPT ![s] =
                         IF go THEN first_stage(h.info[2], h.info[3])
                         ELSE "display"]
    /\ UNCHANGED <<users, widgets, ss, rn>>

----------------------------------------------------------------------------
(* process_file, lines 124-164.  A stage is one step: each call of utils.py *)
(* blocks until its service has answered, and what another session does to  *)
(* the working directory in the meantime is met by the next stage.          *)

\* stage_failed without the try/finally of lines 126 and 163: the return
\* leaves process_file at once
stage_failed_no_finally(s, h, stage, msg, made) ==
    /\ out' = [out EXCEPT ![s].errors = Append(@, msg)]
    /\ calls' = [calls EXCEPT ![s] = @ \o made]
    /\ hist' = [hist EXCEPT ![s] =
                   [h EXCEPT !.failed = IF @ = None THEN <<stage, msg>> ELSE @]]
    /\ pc' = [pc EXCEPT ![s] = "display"]

\* stage_failed without the return after st.error: the next stage runs
stage_failed_no_return(s, h, stage, msg, made) ==
    /\ out' = [out EXCEPT ![s].errors = Append(@, msg)]
    /\ calls' = [calls EXCEPT ![s] = @ \o made]
    /\ hist' = [hist EXCEPT ![s] =
                   [h EXCEPT !.failed = IF @ = None THEN <<stage, msg>> ELSE @]]
    /\ pc' = [pc EXCEPT ![s] =
                 CASE stage = "youtube_audio_downloader" -> "transcribe"
                   [] stage = "transcribe" -> "summarize"
                   [] stage = "translate" -> "summarize"
                   [] stage = "summarize" -> "store"]

\* a stage returned (False, msg): st.error(msg) and return, so that the
\* finally block is what runs next (lines 130-132, 138-140, 146-148, 155-157).
\* h is the history of the session with what the stage has observed
stage_failed(s, h, stage, msg, made) ==
    /\ out' = [out EXCEPT ![s].errors = Append(@, msg)]
    /\ calls' = [calls EXCEPT ![s] = @ \o made]
    /\ hist' = [hist EXCEPT ![s] =
                   [h EXCEPT !.failed = IF @ = None THEN <<stage, msg>> ELSE @]]
    /\ pc' = [pc EXCEPT ![s] = "cleanup"]

\* youtube_audio_downloader: the answers of the video service are an
\* exception (no such video, no audio stream, network), a path at which no
\* file is, or a downloaded file, which is then renamed
youtube_audio_downloader(s) ==
    /\ pc[s] = "download"
    /\ \/ /\ \E msg \in {MSG_DOWNLOAD, MSG_DOWNLOAD_FAILED} :
               stage_failed(s, hist[s], "youtube_audio_downloader", msg,
                            <<"youtube_audio_downloader", "video_service">>)
          /\ UNCHANGED <<fs, loc>>
       \/ \E output_file \in OutputFiles :
            LET r == rename_audio_file(write_file(fs, output_file, <<"audio">>),
                                       output_file)
            IN  /\ fs' = r[1]
                /\ loc' = [loc EXCEPT ![s].file = r[2]]
                /\ hist' = [hist EXCEPT ![s].created = @ \cup {r[2]}]
                /\ calls' = [calls EXCEPT ![s] =
                                @ \o <<"youtube_audio_downloader", "video_service">>]
                /\ pc' = [pc EXCEPT ![s] = "transcribe"]
                /\ out' = out
    /\ UNCHANGED <<users, widgets, ss, rn>>

\* the history of session s after a stage was called with the input file name:
\* whether that file was there is noted
observed(s, stage, name) ==
    IF exists(fs, name) THEN hist[s]
    ELSE [hist[s] EXCEPT !.no_input = @ \cup {stage}]

\* transcribe handing the path to the service without looking at the file
transcribe_unchecked(s) ==
    /\ pc[s] = "transcribe"
    /\ LET h == observed(s, "transcribe", loc[s].file)
       IN  \/ /\ stage_failed(s, h, "transcribe", MSG_TRANSCRIBE,
                              <<"transcribe", "speech_to_text">>)
              /\ UNCHANGED <<fs, loc>>
           \/ \E text \in Transcriptions :
                LET r == save_transcript(fs, loc[s].file, text)
                IN  /\ fs' = r[1]
                    /\ loc' = [loc EXCEPT ![s].transcript_file = r[2]]
                    /\ hist' = [hist EXCEPT ![s] =
                                   [h EXCEPT !.created = @ \cup {r[2]}]]
                    /\ calls' = [calls EXCEPT ![s] =
                                    @ \o <<"transcribe", "speech_to_text">>]
                    /\ pc' = [pc EXCEPT ![s] =
                                 IF widgets[s].translate_text
                                 THEN "translate" ELSE "summarize"]
                    /\ out' = out
    /\ UNCHANGED <<users, widgets, ss, rn>>

\* transcribe, followed by lines 138-143 of process_file
transcribe(s) ==
    /\ pc[s] = "transcribe"
    /\ LET h == observed(s, "transcribe", loc[s].file)
       IN  IF ~exists(fs, loc[s].file)
           THEN /\ stage_failed(s, h, "transcribe", MSG_NO_FILE, <<"transcribe">>)
                /\ UNCHANGED <<fs, loc>>
           ELSE \/ /\ stage_failed(s, h, "transcribe", MSG_TRANSCRIBE,
                                   <<"transcribe", "speech_to_text">>)
                   /\ UNCHANGED <<fs, loc>>
                \/ \E text \in Transcriptions :
                     LET r == save_transcript(fs, loc[s].file, text)
                     IN  /\ fs' = r[1]
                         /\ loc' = [loc EXCEPT ![s].transcript_file = r[2]]
                         /\ hist' = [hist EXCEPT ![s] =
                                        [h EXCEPT !.created = @ \cup {r[2]}]]
                         /\ calls' = [calls EXCEPT ![s] =
                                         @ \o <<"transcribe", "speech_to_text">>]
                         /\ pc' = [pc EXCEPT ![s] =
                                      IF widgets[s].translate_text
                                      THEN "translate" ELSE "summarize"]
                         /\ out' = out
    /\ UNCHANGED <<users, widgets, ss, rn>>

\* translate, followed by lines 146-149 of process_file
translate(s) ==
    /\ pc[s] = "translate"
    /\ LET h == observed(s, "translate", loc[s].transcript_file)
       IN  IF ~exists(fs, loc[s].transcript_file)
           THEN /\ stage_failed(s, h, "translate", MSG_NO_FILE, <<"translate">>)
                /\ UNCHANGED <<fs, loc>>
           ELSE IF ~decodable(fs[loc[s].transcript_file])
           THEN /\ stage_failed(s, h, "translate", MSG_TRANSLATE, <<"translate">>)
                /\ UNCHANGED <<fs, loc>>
           ELSE \/ /\ stage_failed(s, h, "translate", MSG_TRANSLATE,
                                   <<"translate", "chat_completion">>)
                   /\ UNCHANGED <<fs, loc>>
                \/ \E text \in Translations :
                     LET r == save_transcript(fs, loc[s].transcript_file, text)
                     IN  /\ fs' = r[1]
                         /\ loc' = [loc EXCEPT ![s].transcript_file = r[2]]
                         /\ hist' = [hist EXCEPT ![s] =
                                        [h EXCEPT
                                            !.created = @ \cup {r[2]},
                                            !.tr_in = loc[s].transcript_file,
                                            !.tr_new = DOMAIN r[1] \ DOMAIN fs,
                                            !.tr_text = text]]
                         /\ calls' = [calls EXCEPT ![s] =
                                         @ \o <<"translate", "chat_completion">>]
                         /\ pc' = [pc EXCEPT ![s] = "summarize"]
                         /\ out' = out
    /\ UNCHANGED <<users, widgets, ss, rn>>

\* summarize and generate_summary, followed by lines 155-157 of process_file
summarize(s) ==
    /\ pc[s] = "summarize"
    /\ LET h == observed(s, "summarize", loc[s].transcript_file)
       IN  IF ~exists(fs, loc[s].transcript_file)
           THEN /\ stage_failed(s, h, "summarize", MSG_NO_FILE, <<"summarize">>)
                /\ UNCHANGED <<fs, loc>>
           ELSE IF ~decodable(fs[loc[s].transcript_file])
           THEN /\ stage_failed(s, h, "summarize", MSG_SUMMARIZE, <<"summarize">>)
                /\ UNCHANGED <<fs, loc>>
           ELSE LET transcript == read_text(fs[loc[s].transcript_file])
                    h2 == [h EXCEPT !.sum_args = Append(@, transcript)]
                IN  \/ /\ stage_failed(s, h2, "summarize", MSG_SUMMARIZE,
                                       <<"summarize", "chat_completion">>)
                       /\ UNCHANGED <<fs, loc>>
                    \/ \E response \in Completions :
                         /\ loc' = [loc EXCEPT ![s].result = response]
                         /\ hist' = [hist EXCEPT ![s] =
                                        [h2 EXCEPT !.completion = response]]
                         /\ calls' = [calls EXCEPT ![s] =
                                         @ \o <<"summarize", "chat_completion">>]
                         /\ pc' = [pc EXCEPT ![s] = "store"]
                         /\ UNCHANGED <<fs, out>>
    /\ UNCHANGED <<users, widgets, ss, rn>>

\* process_file, lines 159-162: the transcript is read back and both results
\* are stored; an exception of open or read leaves through the finally block
store_results(s) ==
    /\ pc[s] = "store"
    /\ IF exists(fs, loc[s].transcript_file) /\ decodable(fs[loc[s].transcript_file])
       THEN /\ ss' = [ss EXCEPT
                         ![s].transcript = read_text(fs[loc[s].transcript_file]),
                         ![s].summary = loc[s].result]
            /\ hist' = [hist EXCEPT ![s].made_in = widgets[s].input_type]
            /\ out' = out
       ELSE /\ out' = [out EXCEPT ![s].exception = TRUE]
            /\ hist' = [hist EXCEPT ![s] =
                           observed(s, "store", loc[s].transcript_file)]
            /\ ss' = ss
    /\ pc' = [pc EXCEPT ![s] = "cleanup"]
    /\ UNCHANGED <<users, fs, widgets, loc, calls, rn>>

\* the file the next stage of session t is about to read, None when t is not
\* inside process_file
pending_file(t) ==
    IF pc[t] = "transcribe" THEN loc[t].file
    ELSE IF pc[t] \in {"translate", "summarize", "store"} THEN loc[t].transcript_file
    ELSE None

\* process_file, lines 163-164: the finally block.  After it the script goes
\* on to display_results, unless an exception is passing through
run_cleanup(s) ==
    /\ pc[s] = "cleanup"
    /\ fs' = cleanup_files(fs)
    /\ calls' = [calls EXCEPT ![s] = Append(@, "cleanup_files")]
    /\ hist' = [t \in sessions |->
                   IF t # s /\ exists(fs, pending_file(t))
                            /\ ~exists(cleanup_files(fs), pending_file(t))
                   THEN [hist[t] EXCEPT !.victim = TRUE]
                   ELSE hist[t]]
    /\ pc' = [pc EXCEPT ![s] = IF out[s].exception THEN "idle" ELSE "display"]
    /\ widgets' = [widgets EXCEPT ![s].button = IF out[s].exception THEN FALSE ELSE @]
    /\ UNCHANGED <<users, ss, loc, out, rn>>

\* display_results, lines 166-176; the script run ends and the button is
\* released
display_results(s) ==
    /\ pc[s] = "display"
    /\ out' = [out EXCEPT
                  ![s].summary = IF ss[s].summary # EMPTY THEN ss[s].summary ELSE None,
                  ![s].transcript =
                      IF ss[s].transcript # EMPTY THEN ss[s].transcript ELSE None]
    /\ pc' = [pc EXCEPT ![s] = "idle"]
    /\ widgets' = [widgets EXCEPT ![s].button = FALSE]
    /\ UNCHANGED <<users, fs, ss, loc, calls, hist, rn>>

----------------------------------------------------------------------------
(* rename_audio_file on its own *)

PathChars == {"a", " ", "\t", ".", "/"}

RECURSIVE SeqsUpTo(_, _)
SeqsUpTo(S, n) ==
    IF n = 0 THEN {<<>>}
    ELSE LET R == SeqsUpTo(S, n - 1)
         IN  R \cup {Append(r, c) : r \in R, c \in S}

\* the paths of downloaded files: a file name follows the last "/"
Paths == {p \in SeqsUpTo(PathChars, MaxPathLen) : basename(p) # <<>>}

\* rename_audio_file is called on a downloaded file
do_rename ==
    /\ rn.phase = "ready"
    /\ LET r == rename_audio_file(fs, rn.output_file)
       IN  /\ fs' = r[1]
           /\ rn' = [rn EXCEPT !.phase = "done", !.audio_file = r[2]]
    /\ UNCHANGED <<users, pc, widgets, ss, loc, calls, out, hist>>

----------------------------------------------------------------------------
(* Specifications *)

\* the working directory of a fresh checkout holds no file with a prefix
InitFs == (<<"app", ".", "py">> :> <<"code">>)

InitSessions(U) ==
    /\ users = U
    /\ fs = InitFs
    /\ pc = [s \in DOMAIN U |-> "idle"]
    /\ widgets = [s \in DOMAIN U |-> DefaultWidgets(DIRECT)]
    /\ ss = [s \in DOMAIN U |-> [summary |-> None, transcript |-> None,
                          last_input_type |-> None]]
    /\ loc = [s \in DOMAIN U |-> NoLocals]
    /\ calls = [s \in DOMAIN U |-> <<>>]
    /\ out = [s \in DOMAIN U |-> NoOutput]
    /\ hist = [s \in DOMAIN U |-> NoHistory("")]
    /\ rn = [phase |-> "off", output_file |-> None, audio_file |-> None]

\* a user who may do everything the page offers
AnyUser ==
    [input_types |-> InputTypes,
     values |-> UserTexts \cup Links \cup TextUploads \cup VideoUploads \cup AudioUploads,
     lengths |-> SummaryLengths, translate |-> BOOLEAN]

\* a user who uploads audio or gives a link, and may ask for a translation
MediaUser ==
    [input_types |-> {DIRECT, AUDIO, YOUTUBE},
     values |-> {EMPTY, None, <<"audio">>, <<"youtube.com", "/", "id">>},
     lengths |-> {DefaultLength}, translate |-> BOOLEAN]

\* a user who only types text
TextUser ==
    [input_types |-> {DIRECT}, values |-> {EMPTY, <<"H", "i">>},
     lengths |-> {DefaultLength}, translate |-> {FALSE}]

\* one browser session
Init == InitSessions((1 :> AnyUser))

\* two browser sessions on the same process and working directory
InitConc == InitSessions((1 :> MediaUser) @@ (2 :> TextUser))

\* a downloaded file is in the working directory
InitRename ==
    /\ users = <<>>
    /\ \E p \in Paths :
        /\ fs = write_file(InitFs, p, <<"audio">>)
        /\ rn = [phase |-> "ready", output_file |-> p, audio_file |-> None]
    /\ pc = <<>> /\ widgets = <<>> /\ ss = <<>> /\ loc = <<>>
    /\ calls = <<>> /\ out = <<>> /\ hist = <<>>

Next ==
    \/ \E s \in sessions : load_page(s)
    \/ \E s \in sessions : choose_input_type(s)
    \/ \E s \in sessions : enter_input(s)
    \/ \E s \in sessions : set_options(s)
    \/ \E s \in sessions : click_generate(s)
    \/ \E s \in sessions : run_handler(s)
    \/ \E s \in sessions : youtube_audio_downloader(s)
    \/ \E s \in sessions : transcribe(s)
    \/ \E s \in sessions : translate(s)
    \/ \E s \in sessions : summarize(s)
    \/ \E s \in sessions : store_results(s)
    \/ \E s \in sessions : run_cleanup(s)
    \/ \E s \in sessions : display_results(s)

NextRename == do_rename

Spec == Init /\ [][Next]_vars

SpecConc == InitConc /\ [][Next]_vars

SpecRename == InitRename /\ [][NextRename]_vars

----------------------------------------------------------------------------
(* Properties *)

Last(q) == q[Len(q)]

Stages == {"youtube_audio_downloader", "transcribe", "translate", "summarize"}

\* the stages the current script run of s has called, in order
stage_calls(s) == SelectSeq(calls[s], LAMBDA c : c \in Stages)

count(q, x) == Len(SelectSeq(q, LAMBDA c : c = x))

\* process_file was called in the current script run of s and has returned
returned(s) == hist[s].ran /\ pc[s] \in {"display", "idle"}

\* the files of the working directory whose name starts with the prefix
files_of(prefix) == {n \in DOMAIN fs : Len(n) >= 1 /\ n[1] = prefix}

\* C1: whenever process_file has returned, with or without a failed stage,
\* cleanup_files was the last thing it called and the working directory holds
\* no file named downloaded_*, uploaded_*, transcript_* or temp_*.
C1_CleanupLast ==
    \A s \in sessions :
        returned(s) =>
            /\ calls[s] # <<>>
            /\ Last(calls[s]) = "cleanup_files"
            /\ \A p \in {"downloaded_", "uploaded_", "transcript_", "temp_"} :
                   files_of(p) = {}

\* a run that made files, failed at the translation and has returned
C1_Witness ==
    \E s \in sessions :
        /\ returned(s)
        /\ hist[s].created # {}
        /\ hist[s].failed # None
        /\ hist[s].failed[1] = "translate"

\* C2: a run in YouTube mode on a link without "youtube.com" fails at the
\* download stage, and the video service is never called.
C2_RejectedBeforeService ==
    \A s \in sessions :
        (/\ hist[s].ran
         /\ loc[s].is_youtube
         /\ ~(\E i \in 1..Len(widgets[s].value) : widgets[s].value[i] = "youtube.com")
         /\ pc[s] # "download")
        => /\ hist[s].failed # None
           /\ hist[s].failed[1] = "youtube_audio_downloader"
           /\ count(calls[s], "video_service") = 0

\* C3: once a stage has failed, it is the last stage called, its message is
\* on the page, no summary was produced, and session-state summary and
\* transcript are what they were when process_file was entered.
C3_StopsAtFailure ==
    \A s \in sessions :
        hist[s].failed # None =>
            /\ pc[s] \in {"cleanup", "display", "idle"}
            /\ Last(stage_calls(s)) = hist[s].failed[1]
            /\ out[s].errors # <<>>
            /\ Last(out[s].errors) = hist[s].failed[2]
            /\ loc[s].result = None
            /\ <<ss[s].summary, ss[s].transcript>> = hist[s].before

\* a failed transcription after which the summary of an earlier run is kept
C3_Witness ==
    \E s \in sessions :
        /\ hist[s].failed # None
        /\ hist[s].failed[1] = "transcribe"
        /\ pc[s] = "idle"
        /\ ss[s].summary \in Completions

\* the transcript artifacts of a run: the transcript_* files, and for text
\* input the text file that serves as the transcript
transcript_artifacts(s) ==
    files_of("transcript_")
        \cup (IF loc[s].is_text THEN {loc[s].transcript_file} ELSE {})

\* C4: a successful run has exactly one transcript artifact on disk when the
\* cleanup starts, and during a run there are never two downloaded_*, two
\* uploaded_* or two transcript_* files.
C4_OneArtifactOfEachKind ==
    \A s \in sessions :
        /\ (hist[s].ran /\ pc[s] = "cleanup" /\ hist[s].failed = None
                /\ ~out[s].exception)
           => Cardinality(transcript_artifacts(s) \cap DOMAIN fs) = 1
        /\ (hist[s].ran /\ pc[s] \notin {"display", "idle"})
           => \A p \in {"downloaded_", "uploaded_", "transcript_"} :
                  Cardinality(files_of(p)) <= 1

\* C5: in a script run in which the input type differs from the recorded one,
\* the handler starts with summary and transcript empty and the new type
\* recorded; and what display_results shows was made under the input type now
\* selected.
C5_ResetOnModeChange ==
    \A s \in sessions :
        /\ (hist[s].changed /\ pc[s] = "handler")
           => /\ ss[s].summary = EMPTY
              /\ ss[s].transcript = EMPTY
              /\ ss[s].last_input_type = widgets[s].input_type
        /\ out[s].summary # None => hist[s].made_in = widgets[s].input_type
        /\ out[s].transcript # None => hist[s].made_in = widgets[s].input_type

\* the input type was changed while a summary was stored
C5_Witness ==
    \E s \in sessions :
        /\ hist[s].changed
        /\ pc[s] = "handler"
        /\ hist[s].had \in Completions

\* C6: a run on direct text, translation off, calls neither the download, the
\* transcription nor the translation, calls summarize once and the completion
\* once, on the text of the text area; without a failure the transcript stored
\* is that text and the summary stored is the completion.
C6_DirectText ==
    \A s \in sessions :
        (/\ widgets[s].input_type = DIRECT
         /\ ~widgets[s].translate_text
         /\ hist[s].ran
         /\ pc[s] \in {"cleanup", "display", "idle"})
        => /\ \A st \in {"youtube_audio_downloader", "transcribe", "translate",
                         "video_service", "speech_to_text"} :
                  count(calls[s], st) = 0
           /\ count(calls[s], "summarize") = 1
           /\ count(calls[s], "chat_completion") = 1
           /\ hist[s].sum_args = <<widgets[s].value>>
           /\ hist[s].failed = None
                => /\ ss[s].transcript = widgets[s].value
                   /\ ss[s].summary = hist[s].completion

\* the text " H\n" was summarized
C6_Witness ==
    \E s \in sessions :
        /\ widgets[s].input_type = DIRECT
        /\ widgets[s].value = <<" ", "H", "\n">>
        /\ ~widgets[s].translate_text
        /\ hist[s].ran
        /\ hist[s].failed = None
        /\ pc[s] = "display"
        /\ ss[s].summary \in Completions

\* C7: when transcribe is called on a file that is not there, it fails, the
\* speech-to-text service is not called and no transcript file is made.
C7_TranscribeMissingFile ==
    \A s \in sessions :
        "transcribe" \in hist[s].no_input =>
            /\ hist[s].failed # None
            /\ hist[s].failed[1] = "transcribe"
            /\ count(calls[s], "speech_to_text") = 0
            /\ loc[s].transcript_file = None
            /\ \A n \in hist[s].created : n[1] # "transcript_"

\* transcribe was called after the uploaded file had been removed
C7_Witness ==
    \E s \in sessions :
        /\ "transcribe" \in hist[s].no_input
        /\ loc[s].file = UPLOADED_AUDIO
        /\ pc[s] = "cleanup"

\* C9: after a successful translate the transcript file is the one that was
\* read, it holds the translation, and no file was added.
C9_TranslateOverwrites ==
    \A s \in sessions :
        (hist[s].tr_in # None /\ pc[s] = "summarize")
        => /\ loc[s].transcript_file = hist[s].tr_in
           /\ hist[s].tr_new = {}
           /\ fs[hist[s].tr_in] = hist[s].tr_text

\* C10: with two sessions, a stage finds its input file gone only in a run
\* whose pending file the cleanup_files of the other session has removed.
C10_MissingOnlyByForeignCleanup ==
    \A s \in sessions :
        hist[s].no_input # {} => hist[s].victim

\* a run whose first failure is the missing file that the other session's
\* cleanup removed
C10_Witness ==
    \E s \in sessions :
        /\ hist[s].victim
        /\ hist[s].failed # None
        /\ hist[s].failed[2] = MSG_NO_FILE
        /\ out[s].errors = <<MSG_NO_FILE>>

----------------------------------------------------------------------------
(* Properties of rename_audio_file *)

\* s with each whitespace character that follows a non-whitespace character
\* (or starts s) turned into "_" and every other whitespace character dropped
collapsed(s) ==
    LET F[i \in 0..Len(s)] ==
            IF i = 0 THEN <<>>
            ELSE F[i - 1] \o
                 (IF s[i] \notin Whitespace THEN <<s[i]>>
                  ELSE IF i = 1 \/ s[i - 1] \notin Whitespace THEN <<"_">>
                  ELSE <<>>)
    IN  F[Len(s)]

\* the file name of path p without its extension
stem(p) ==
    LET slashes == {i \in 1..Len(p) : p[i] = "/"}
        from == IF slashes = {} THEN 1
                ELSE 1 + CHOOSE i \in slashes : \A j \in slashes : j <= i
        base == [i \in 1..(Len(p) - from + 1) |-> p[from + i - 1]]
        dots == {i \in 2..Len(base) :
                    /\ base[i] = "."
                    /\ \E j \in 1..(i - 1) : base[j] # "."}
    IN  IF dots = {} THEN base
        ELSE SubSeq(base, 1, (CHOOSE i \in dots : \A j \in dots : j <= i) - 1)

\* C8: rename_audio_file returns "downloaded_" + the stem + ".mp3" with every
\* run of whitespace turned into one underscore, a name without whitespace,
\* and the downloaded file is found under that name and no longer under its
\* own.
C8_RenameCollapsesWhitespace ==
    rn.phase = "done" =>
        /\ rn.audio_file
             = collapsed(<<"downloaded_">> \o stem(rn.output_file) \o <<".", "mp3">>)
        /\ \A i \in 1..Len(rn.audio_file) : rn.audio_file[i] \notin Whitespace
        /\ rn.output_file \notin DOMAIN fs
        /\ rn.audio_file \in DOMAIN fs
        /\ fs[rn.audio_file] = <<"audio">>

\* "a \ta" (a, space, tab, a) has become "downloaded_a_a.mp3"
C8_Witness ==
    /\ rn.phase = "done"
    /\ rn.output_file = <<"a", " ", "\t", "a">>
    /\ rn.audio_file = <<"downloaded_", "a", "_", "a", ".", "mp3">>

====
